---------------------------- MODULE Spec2Model ----------------------------
(***************************************************************************)
(* Model of src/app.py: the crime-severity dashboard.                      *)
(*                                                                         *)
(* Numbers.  The severity index is a Python float rounded to two decimals. *)
(* It is modelled exactly, as an integer number of hundredths (4.55 is     *)
(* 455): the unrounded quotient is kept as a fraction <<num, den>> and     *)
(* round(x, 2) is the nearest hundredth, ties to even.  Counts are         *)
(* non-negative integers, as in the data set.                              *)
(*                                                                         *)
(* Three specifications share the variables:                               *)
(*   Spec        the dashboard: one action per Streamlit script run;       *)
(*   SpecScorer  calculate_crime_severity applied to bounded tables;       *)
(*   SpecPage    crime_analysis_page applied to bounded data sets.         *)
(***************************************************************************)
EXTENDS Integers, Sequences, FiniteSets, TLC

VARIABLES
    crime_data,      \* the incident table (rows in file order)
    location_data,   \* the coordinate lookup table (rows in file order)
    page,            \* st.session_state.page
    state,           \* st.session_state.state, or Unset
    view,            \* what the last script run put on the screen
    df,              \* SpecScorer: the table handed to calculate_crime_severity
    result,          \* SpecScorer: what calculate_crime_severity(df) returned
    prev,            \* SpecScorer: the result for the table before the last step
    op,              \* SpecScorer: the last step taken
    incs,            \* SpecScorer: count increases made so far
    analysis         \* SpecPage: what crime_analysis_page put on the screen

vars == <<crime_data, location_data, page, state, view,
          df, result, prev, op, incs, analysis>>

---------------------------------------------------------------------------
(* Bounds of the model *)

MaxRows == 2
MaxIncs == 2
MaxDataRows == 2

---------------------------------------------------------------------------
(* Data *)

Unset == "<unset>"
None == "<None>"

crime_types == <<"murder", "rape", "kidnapping & abduction",
                 "robbery", "burglary", "dowry deaths">>

Categories == {crime_types[i] : i \in 1..Len(crime_types)}

\* crime_weights with rape weighted 3 instead of 4.
crime_weights_wrong == [c \in Categories |->
    CASE c = "murder" -> 5
      [] c = "rape" -> 3
      [] c = "kidnapping & abduction" -> 4
      [] OTHER -> 3]

crime_weights == [c \in Categories |->
    CASE c = "murder" -> 5
      [] c = "rape" -> 4
      [] c = "kidnapping & abduction" -> 4
      [] c = "robbery" -> 3
      [] c = "burglary" -> 3
      [] c = "dowry deaths" -> 3]

ZeroCounts == [c \in Categories |-> 0]

Counts(murder, rape, robbery) ==
    [ZeroCounts EXCEPT !["murder"] = murder, !["rape"] = rape, !["robbery"] = robbery]

MixedCounts == [c \in Categories |->
    CASE c = "murder" -> 1
      [] c = "rape" -> 2
      [] c = "kidnapping & abduction" -> 3
      [] c = "robbery" -> 4
      [] c = "burglary" -> 5
      [] c = "dowry deaths" -> 6]

Latitude(s, d) == (IF s = "Goa" THEN 15 ELSE 10) + (IF d = "Panaji" THEN 0 ELSE 1)
Longitude(s, d) == (IF s = "Goa" THEN 73 ELSE 76) + (IF d = "Panaji" THEN 0 ELSE 1)

\* One row of crime_data: the key columns, the coordinates, the six counts.
CrimeRow(s, d, y, counts) ==
    [c \in {"state/ut", "district", "year", "latitude", "longitude"} |->
        CASE c = "state/ut" -> s
          [] c = "district" -> d
          [] c = "year" -> y
          [] c = "latitude" -> Latitude(s, d)
          [] c = "longitude" -> Longitude(s, d)] @@ counts

\* One row of location_data.
LocationRow(s, d) ==
    [State |-> s, District |-> d, Latitude |-> Latitude(s, d), Longitude |-> Longitude(s, d)]

SeqsUpTo(S, n) == UNION {[1..k -> S] : k \in 0..n}

---------------------------------------------------------------------------
(* Data-frame helpers *)

\* df[mask], the rows that satisfy the mask, in order, is SelectSeq.

\* df[col].unique(): the distinct values in order of first appearance.
RECURSIVE Unique(_, _)
Unique(rows, col) ==
    IF rows = <<>> THEN <<>>
    ELSE LET rest == Unique(SelectSeq(Tail(rows), LAMBDA r : r[col] # Head(rows)[col]), col)
         IN  <<Head(rows)[col]>> \o rest

\* df[col].count() in place of df[col].sum().
ColumnCount(rows, col) == Len(rows)

\* df[col].iloc[0] in place of df[col].sum().
ColumnFirst(rows, col) == IF rows = <<>> THEN 0 ELSE Head(rows)[col]

\* df[col].sum(): 0 for a frame with no rows.
RECURSIVE ColumnSum(_, _)
ColumnSum(rows, col) ==
    IF rows = <<>> THEN 0 ELSE Head(rows)[col] + ColumnSum(Tail(rows), col)

\* df[col].max(), 0 for a frame with no rows.
RECURSIVE ColumnMax(_, _)
ColumnMax(rows, col) ==
    IF rows = <<>> THEN 0
    ELSE LET m == ColumnMax(Tail(rows), col)
         IN  IF Head(rows)[col] > m THEN Head(rows)[col] ELSE m

---------------------------------------------------------------------------
(* calculate_crime_severity *)

\* sum(f(col) for col in crime_weights), in the dictionary's order.
RECURSIVE SumOver(_, _)
SumOver(cols, f) ==
    IF cols = <<>> THEN 0 ELSE f[Head(cols)] + SumOver(Tail(cols), f)

weighted_sum(rows) ==
    SumOver(crime_types, [col \in Categories |-> ColumnSum(rows, col) * crime_weights[col]])

max_possible ==
    SumOver(crime_types, [col \in Categories |-> 500 * crime_weights[col]])

\* round(num/den, 2) in hundredths: the nearest integer to 100*num/den, ties
\* to even (num >= 0, den > 0).
round2(num, den) ==
    LET q == (100 * num) \div den
        r == (100 * num) % den
    IN  IF 2 * r < den THEN q
        ELSE IF 2 * r > den THEN q + 1
        ELSE IF q % 2 = 0 THEN q ELSE q + 1

\* Line 39 with the operands of the division exchanged.
crime_index_swapped(ws, mp) ==
    IF mp > 0
    THEN [num |-> mp * 100, den |-> ws, divided |-> TRUE, divisor |-> ws]
    ELSE [num |-> 0, den |-> 1, divided |-> FALSE, divisor |-> 0]

\* The conditional expression of line 39, as the fraction it evaluates to.
\* divided tells whether it took the dividing branch, divisor by what.
crime_index(ws, mp) ==
    IF mp > 0
    THEN [num |-> ws * 100, den |-> mp, divided |-> TRUE, divisor |-> mp]
    ELSE [num |-> 0, den |-> 1, divided |-> FALSE, divisor |-> 0]

\* What a call returns: the rounded index, in hundredths, together with what
\* the call computed on the way.  A division by zero yields no index
\* (zero_division).
Returned(ws, mp, ci) ==
    [weighted_sum |-> ws, max_possible |-> mp,
     divided |-> ci.divided, divisor |-> ci.divisor,
     zero_division |-> ci.divided /\ ci.divisor = 0,
     index |-> IF ci.divided /\ ci.divisor = 0 THEN 0 ELSE round2(ci.num, ci.den)]

\* The variant that normalises by the largest count seen in each column.
calculate_crime_severity_relative(rows) ==
    LET ws == weighted_sum(rows)
        mp == SumOver(crime_types,
                      [col \in Categories |-> ColumnMax(rows, col) * crime_weights[col]])
    IN  Returned(ws, mp, crime_index(ws, mp))

calculate_crime_severity(rows) ==
    LET ws == weighted_sum(rows)
        mp == max_possible
    IN  Returned(ws, mp, crime_index(ws, mp))

---------------------------------------------------------------------------
(* SpecScorer: calculate_crime_severity on bounded tables *)

NoView == [run |-> FALSE]
NoAnalysis == [run |-> FALSE]

ScorerRows ==
    {CrimeRow("Goa", "Panaji", 2024, c) : c \in {ZeroCounts, MixedCounts}}

Deltas == {100, 500}

ScorerInit ==
    /\ df \in SeqsUpTo(ScorerRows, MaxRows)
    /\ result = calculate_crime_severity(df)
    /\ prev = result
    /\ op = "call"
    /\ incs = 0
    /\ crime_data = <<>>
    /\ location_data = <<>>
    /\ page = "StateInputPage"
    /\ state = Unset
    /\ view = NoView
    /\ analysis = NoAnalysis

\* The same table with one count of one row made larger, scored again.
IncreaseCount ==
    /\ incs < MaxIncs
    /\ \E i \in 1..Len(df), col \in Categories, d \in Deltas :
          df' = [df EXCEPT ![i][col] = @ + d]
    /\ prev' = result
    /\ result' = calculate_crime_severity(df')
    /\ op' = "increase"
    /\ incs' = incs + 1
    /\ UNCHANGED <<crime_data, location_data, page, state, view, analysis>>

\* The same table with two of its rows exchanged, scored again.
SwapRows ==
    /\ \E i, j \in 1..Len(df) :
          /\ i < j
          /\ df' = [df EXCEPT ![i] = df[j], ![j] = df[i]]
    /\ prev' = result
    /\ result' = calculate_crime_severity(df')
    /\ op' = "swap"
    /\ UNCHANGED <<incs, crime_data, location_data, page, state, view, analysis>>

ScorerNext == IncreaseCount \/ SwapRows

SpecScorer == ScorerInit /\ [][ScorerNext]_vars

---------------------------------------------------------------------------
(* Claims about calculate_crime_severity, checked under SpecScorer *)

\* The total of one category over all the rows of the scored table.
Total(col) == ColumnSum(df, col)

ClaimWeightedSum ==
    5 * Total("murder") + 4 * Total("rape") + 4 * Total("kidnapping & abduction")
        + 3 * Total("robbery") + 3 * Total("burglary") + 3 * Total("dowry deaths")

\* h hundredths is a nearest hundredth to 100 * num / den.
NearestHundredth(h, num, den) ==
    /\ 2 * (h * den - 100 * 100 * num) <= den
    /\ 2 * (100 * 100 * num - h * den) <= den

OnlyCategory(col) ==
    /\ Total(col) = 500
    /\ \A other \in Categories \ {col} : Total(other) = 0

\* C1: the returned index is (5*murder + 4*rape + 4*kidnapping + 3*robbery +
\* 3*burglary + 3*dowry deaths, each totalled over the rows) / 11000 * 100
\* rounded to two decimals; 11000 is 500 * (5+4+4+3+3+3); one row with
\* murder = 100 and nothing else gives 4.55; a table whose only non-zero
\* category totals 500 gives weight * 500 / 11000 * 100 (22.73, 18.18, 13.64).
C1_SeverityFormula ==
    /\ 500 * (5 + 4 + 4 + 3 + 3 + 3) = 11000
    /\ result.max_possible = 11000
    /\ result.weighted_sum = ClaimWeightedSum
    /\ NearestHundredth(result.index, ClaimWeightedSum, 11000)
    /\ (Len(df) = 1 /\ Total("murder") = 100
            /\ \A col \in Categories \ {"murder"} : Total(col) = 0)
        => result.index = 455
    /\ OnlyCategory("murder") => result.index = 2273
    /\ \A col \in {"rape", "kidnapping & abduction"} :
          OnlyCategory(col) => result.index = 1818
    /\ \A col \in {"robbery", "burglary", "dowry deaths"} :
          OnlyCategory(col) => result.index = 1364

\* C1 witness: a row with murder = 100 and nothing else was scored as 4.55.
C1_Witness ==
    /\ Len(df) = 1
    /\ df[1]["murder"] = 100
    /\ \A col \in Categories \ {"murder"} : df[1][col] = 0
    /\ op = "increase"
    /\ result.index = 455

AllZero ==
    \A i \in 1..Len(df) : \A col \in Categories : df[i][col] = 0

\* C6: a table whose six counts are zero in every row, the table with no rows
\* included, scores 0.
C6_AllZeroIsZero == AllZero => result.index = 0

\* C6 witness: a table of two all-zero rows was scored.
C6_Witness == Len(df) = 2 /\ AllZero /\ result.index = 0

\* C7: making one count of one row larger never lowers the index.
C7_Monotone == op = "increase" => result.index >= prev.index

\* C7 witness: an increase raised the index of a table of two rows.
C7_Witness ==
    op = "increase" /\ Len(df) = 2 /\ prev.index > 0 /\ result.index > prev.index

\* C8: exchanging rows does not change the index.
C8_RowOrder == op = "swap" => result.index = prev.index

\* C8 witness: two different rows were exchanged and the index is not 0.
C8_Witness ==
    op = "swap" /\ Len(df) = 2 /\ df[1] # df[2] /\ result.index > 0

\* C9: no call divides by zero, and a call whose normalizer is zero returns 0
\* without dividing.
C9_NoDivisionByZero ==
    /\ ~result.zero_division
    /\ result.divided => result.divisor # 0
    /\ result.max_possible = 0 => (~result.divided /\ result.index = 0)

\* C9 witness: a call on an all-zero table divided, by the normalizer 11000.
C9_Witness ==
    Len(df) > 0 /\ AllZero /\ result.divided /\ result.divisor = 11000

---------------------------------------------------------------------------
(* crime_analysis_page *)

Elements(seq) == {seq[i] : i \in 1..Len(seq)}

\* Line 82 with the two comparisons exchanging their strictness.
MarkerColor_shifted(severity) ==
    IF severity <= 25 * 100 THEN "green"
    ELSE IF severity < 55 * 100 THEN "orange"
    ELSE "red"

\* Line 82: the colour of a district's marker, from its index in hundredths.
MarkerColor(severity) ==
    IF severity < 25 * 100 THEN "green"
    ELSE IF severity <= 55 * 100 THEN "orange"
    ELSE "red"

\* Lines 63-68: each district of the state, in order of first appearance,
\* with the index of its 2024 rows.
district_severity(st) ==
    LET filtered_data == SelectSeq(crime_data, LAMBDA r : r["state/ut"] = st)
        districts == Unique(filtered_data, "district")
    IN  [k \in 1..Len(districts) |->
            LET district_data ==
                    SelectSeq(filtered_data, LAMBDA r : r["district"] = districts[k])
                rows2024 == SelectSeq(district_data, LAMBDA r : r["year"] = 2024)
            IN  [district |-> districts[k],
                 severity |-> calculate_crime_severity(rows2024).index]]

NoMap == [shown |-> FALSE, location |-> <<0, 0>>, markers |-> <<>>]

\* Lines 73-95: the map centred on the state's first coordinate row, with a
\* marker for each district that has a coordinate row; a warning and no map
\* when the state has no coordinate row.
SeverityMap(st, severities) ==
    LET state_location == SelectSeq(location_data, LAMBDA l : l.State = st)
        DistrictRow(district) ==
            SelectSeq(location_data, LAMBDA l : l.State = st /\ l.District = district)
        located == SelectSeq(severities, LAMBDA e : DistrictRow(e.district) # <<>>)
    IN  IF state_location # <<>>
        THEN [shown |-> TRUE,
              location |-> <<state_location[1].Latitude, state_location[1].Longitude>>,
              markers |-> [k \in 1..Len(located) |->
                  LET row == DistrictRow(located[k].district)[1]
                  IN  [location |-> <<row.Latitude, row.Longitude>>,
                       color |-> MarkerColor(located[k].severity),
                       district |-> located[k].district,
                       severity |-> located[k].severity]]]
        ELSE NoMap

\* sort_values(by='Crime Severity Index', ascending=False): the orders of the
\* entries with the index descending.  The sort is not stable, so entries
\* with equal index may come in either order.
SortedDescending(entries) ==
    LET n == Len(entries)
        orders == {[i \in 1..n |-> entries[p[i]]] : p \in Permutations(1..n)}
    IN  {t \in orders : \A i \in 1..n, j \in 1..n : i < j => t[i].severity >= t[j].severity}

\* What crime_analysis_page puts on the screen for session state `st`, with
\* the table in the order `table` the sort produced.
crime_analysis_page(st, table) ==
    LET severities == district_severity(st)
        map == SeverityMap(st, severities)
    IN  [run |-> TRUE,
         state |-> st,
         map |-> map,
         warning |-> ~map.shown,
         df_severity |-> table]

---------------------------------------------------------------------------
(* SpecPage: crime_analysis_page on bounded data sets *)

Places == {<<"Goa", "Panaji">>, <<"Goa", "Margao">>, <<"Kerala", "Panaji">>}

\* Counts whose index is 24.99, 25.00, 55.00 and 55.01 (rows of another year
\* give a district the index 0).
PageCounts ==
    {Counts(549, 1, 0), Counts(550, 0, 0), Counts(1210, 0, 0), Counts(1209, 0, 2)}

PageRows ==
    {CrimeRow(p[1], p[2], y, c) : p \in Places, y \in {2023, 2024}, c \in PageCounts}

LocationRows == {LocationRow(p[1], p[2]) : p \in Places}

\* The lookup tables: any of the places, in any order, one row for a place.
LocationTables ==
    {t \in SeqsUpTo(LocationRows, Cardinality(LocationRows)) :
        \A i \in 1..Len(t), j \in 1..Len(t) : i # j => t[i] # t[j]}

\* The values session_state.state can hold once a state has been chosen.
ChosenStates ==
    LET states == Elements(Unique(crime_data, "state/ut"))
    IN  IF states = {} THEN {Unset} ELSE states

PageInit ==
    /\ crime_data \in SeqsUpTo(PageRows, MaxDataRows)
    /\ location_data \in LocationTables
    /\ page = "CrimeAnalysisPage"
    /\ state \in ChosenStates
    /\ view = NoView
    /\ analysis = NoAnalysis
    /\ df = <<>>
    /\ result = calculate_crime_severity(df)
    /\ prev = result
    /\ op = "call"
    /\ incs = 0

CallCrimeAnalysisPage ==
    /\ state # Unset
    /\ \E table \in SortedDescending(district_severity(state)) :
          analysis' = crime_analysis_page(state, table)
    /\ UNCHANGED <<crime_data, location_data, page, state, view,
                   df, result, prev, op, incs>>

PageNext == CallCrimeAnalysisPage

SpecPage == PageInit /\ [][PageNext]_vars

\* C5: every marker on the district severity map is green when its index is
\* below 25, orange from 25 to 55 inclusive, red above 55.
C5_MarkerBands ==
    analysis.run =>
        \A k \in 1..Len(analysis.map.markers) :
            LET m == analysis.map.markers[k]
            IN  /\ m.color \in {"green", "orange", "red"}
                /\ m.color = "green" <=> m.severity < 2500
                /\ m.color = "orange" <=> (2500 <= m.severity /\ m.severity <= 5500)
                /\ m.color = "red" <=> m.severity > 5500
                /\ \E e \in Elements(district_severity(analysis.state)) :
                      e.district = m.district /\ e.severity = m.severity

HasMarker(severity, color) ==
    \E k \in 1..Len(analysis.map.markers) :
        /\ analysis.map.markers[k].severity = severity
        /\ analysis.map.markers[k].color = color

\* C5 witness: one map carries an orange marker at exactly 25.00 and another
\* orange marker at exactly 55.00.
C5_Witness ==
    analysis.run /\ HasMarker(2500, "orange") /\ HasMarker(5500, "orange")

---------------------------------------------------------------------------
(* The dashboard: session state and one script run per interaction *)

\* Lines 51-56 for a pressed button, without the test of line 52.
state_input_page_unchecked(pressed, selected) ==
    IF pressed
    THEN [page |-> "CrimeAnalysisPage", state |-> selected, warning |-> FALSE]
    ELSE [page |-> page, state |-> state, warning |-> FALSE]

\* Lines 47-56: state_input_page with the select box holding `selected`
\* (None when the box has no options) and the button pressed or not.  The
\* session state it leaves, and whether it warned.
state_input_page(pressed, selected) ==
    IF pressed
    THEN IF selected # None
         THEN [page |-> "CrimeAnalysisPage", state |-> selected, warning |-> FALSE]
         ELSE [page |-> page, state |-> state, warning |-> TRUE]
    ELSE [page |-> page, state |-> state, warning |-> FALSE]

\* The options of a select box as a set; a box without options returns None.
Options(seq) == IF seq = <<>> THEN {None} ELSE Elements(seq)

StateOptions == Options(Unique(crime_data, "state/ut"))

DistrictOptions(st) ==
    Options(Unique(SelectSeq(crime_data, LAMBDA r : r["state/ut"] = st), "district"))

\* Lines 111-115.
filtered_data(st, district) ==
    SelectSeq(crime_data, LAMBDA r :
        /\ r["state/ut"] = st
        /\ r["district"] = district
        /\ r["year"] \in {2023, 2024})

\* Lines 123-128.
RiskMessage(crime_severity_index) ==
    IF crime_severity_index < 40 * 100 THEN "success"
    ELSE IF crime_severity_index < 70 * 100 THEN "warning"
    ELSE "error"

\* Lines 154-159: the recommendations shown.
Recommendations(rows) ==
    {c \in {"murder", "rape", "burglary"} :
        ColumnSum(rows, c) > (CASE c = "murder" -> 50 [] c = "rape" -> 30 [] OTHER -> 100)}

NoHotspot == [kind |-> "none", sums |-> <<0, 0>>, rows |-> 0, markers |-> 0]

\* Lines 163-171: the hot-spot map, centred on the mean of the rows'
\* coordinates (kept as the two sums and the number of rows), one marker a
\* row.  Without rows the mean is NaN: folium either rejects the location
\* (the script run ends with the exception) or draws a map centred nowhere,
\* depending on its version.
Hotspot(rows, rejects_nan) ==
    IF rows # <<>>
    THEN [kind |-> "map",
          sums |-> <<ColumnSum(rows, "latitude"), ColumnSum(rows, "longitude")>>,
          rows |-> Len(rows), markers |-> Len(rows)]
    ELSE [NoHotspot EXCEPT !.kind = IF rejects_nan THEN "exception" ELSE "nan_map"]

\* Lines 107-175: the analysis block for session state `st` with the district
\* box holding `district`.
AnalysisBlock(st, district, rejects_nan) ==
    LET rows == filtered_data(st, district)
        hotspot == Hotspot(rows, rejects_nan)
        crime_severity_index == calculate_crime_severity(rows).index
    IN  [district |-> district,
         rows |-> Len(rows),
         crime_severity_index |-> crime_severity_index,
         message |-> RiskMessage(crime_severity_index),
         recommendations |-> Recommendations(rows),
         coordinate_warning |-> FALSE,   \* the block has no such branch
         hotspot |-> hotspot,
         back_button |-> hotspot.kind # "exception"]

NoBlock == AnalysisBlock(Unset, None, FALSE)

\* One run of the script, lines 42-175: `click` is the button that caused the
\* run ("none" for the first load or a changed select box), `selected` and
\* `district` are what the select boxes hold.
ScriptRun(click, selected, district, rejects_nan) ==
    LET on_input == page = "StateInputPage"
        input == state_input_page(on_input /\ click = "show", selected)
        page1 == IF on_input THEN input.page ELSE page
        state1 == IF on_input THEN input.state ELSE state
        on_analysis == page1 = "CrimeAnalysisPage"
    IN  /\ district \in (IF on_analysis THEN DistrictOptions(state1) ELSE {None})
        /\ \E block \in {IF on_analysis
                         THEN AnalysisBlock(state1, district, rejects_nan)
                         ELSE NoBlock} :
              /\ rejects_nan => block.hotspot.kind = "exception"
              /\ state' = state1
              /\ page' = IF on_analysis /\ block.back_button /\ click = "back"
                         THEN "StateInputPage" ELSE page1
              /\ view' = [run |-> TRUE,
                          click |-> click,
                          selected |-> selected,
                          show_button |-> on_input,
                          select_warning |-> on_input /\ input.warning,
                          analysis_block |-> on_analysis,
                          read_state |-> IF on_analysis THEN state1 ELSE None,
                          block |-> block,
                          back_button |-> on_analysis /\ block.back_button]
        /\ UNCHANGED <<crime_data, location_data, analysis, df, result, prev, op, incs>>

AppPlaces == Places

AppCounts == {Counts(100, 0, 0), Counts(2201, 0, 0)}

AppRows ==
    {CrimeRow(p[1], p[2], y, c) : p \in AppPlaces, y \in {2022, 2023, 2024}, c \in AppCounts}

\* The session as it starts: the data loaded, lines 43-44 done, nothing on
\* the screen yet.
Init ==
    /\ crime_data \in SeqsUpTo(AppRows, MaxDataRows)
    /\ location_data = <<LocationRow("Goa", "Panaji"), LocationRow("Goa", "Margao"),
                          LocationRow("Kerala", "Panaji")>>
    /\ page = "StateInputPage"
    /\ state = Unset
    /\ view = NoView
    /\ analysis = NoAnalysis
    /\ df = <<>>
    /\ result = calculate_crime_severity(df)
    /\ prev = result
    /\ op = "call"
    /\ incs = 0

\* The first load, or a run caused by a changed select box.
Rerun ==
    \E selected \in StateOptions, district \in Elements(Unique(crime_data, "district")) \cup {None},
       rejects_nan \in BOOLEAN :
        ScriptRun("none", selected, district, rejects_nan)

\* The user presses 'Show Crime Severity Map', which the last run rendered.
PressShow ==
    /\ view.run /\ view.show_button
    /\ \E selected \in StateOptions, district \in Elements(Unique(crime_data, "district")) \cup {None},
          rejects_nan \in BOOLEAN :
           ScriptRun("show", selected, district, rejects_nan)

\* The user presses 'Go Back', which the last run rendered.
PressGoBack ==
    /\ view.run /\ view.back_button
    /\ \E selected \in StateOptions, district \in Elements(Unique(crime_data, "district")) \cup {None},
          rejects_nan \in BOOLEAN :
           ScriptRun("back", selected, district, rejects_nan)

Next == Rerun \/ PressShow \/ PressGoBack

Spec == Init /\ [][Next]_vars

---------------------------------------------------------------------------
(* Claims about the dashboard, checked under Spec *)

\* C2: every index the dashboard shows lies in the closed range 0 to 100.
C2_IndexBounded ==
    (view.run /\ view.analysis_block) =>
        (0 <= view.block.crime_severity_index
            /\ view.block.crime_severity_index <= 100 * 100)

\* C3: a run caused by 'Show Crime Severity Map' with a state selected
\* renders the output of crime_analysis_page for that state: the district
\* map and the district table sorted by index, descending.
C3_ShowRendersSeverityView ==
    (view.run /\ view.show_button /\ view.click = "show" /\ view.selected # None) =>
        /\ analysis.run
        /\ \E table \in SortedDescending(district_severity(state)) :
              analysis = crime_analysis_page(state, table)

\* C4: a run whose selected district has no coordinate row shows a warning,
\* omits the map and renders the rest of the page, down to 'Go Back'.
C4_MissingCoordinatesWarn ==
    (view.run /\ view.analysis_block /\ view.block.rows = 0) =>
        /\ view.block.coordinate_warning
        /\ view.block.hotspot.kind = "none"
        /\ view.back_button

C10_PageInvariant ==
    /\ page \in {"StateInputPage", "CrimeAnalysisPage"}
    /\ page = "CrimeAnalysisPage" => state \in Elements(Unique(crime_data, "state/ut"))
    /\ (view.run /\ view.analysis_block) =>
          view.read_state \in Elements(Unique(crime_data, "state/ut"))

C10_PageStep ==
    /\ (page = "StateInputPage" /\ page' = "CrimeAnalysisPage") =>
          /\ view'.click = "show"
          /\ view'.selected # None
          /\ state' = view'.selected
    /\ (page = "CrimeAnalysisPage" /\ page' = "StateInputPage") =>
          view'.click = "back"

\* C10: session_state.page starts as 'StateInputPage' and is always one of
\* 'StateInputPage' and 'CrimeAnalysisPage'; it becomes 'CrimeAnalysisPage'
\* only in a run caused by 'Show Crime Severity Map' with a state selected,
\* and 'StateInputPage' again only in a run caused by 'Go Back'; whenever it
\* is 'CrimeAnalysisPage' session_state.state holds a state of the data set,
\* and the analysis block never reads an unset state.
C10_PageMachine ==
    /\ page = "StateInputPage"
    /\ []C10_PageInvariant
    /\ [][C10_PageStep]_vars

\* C10 witness: the user went to the analysis page and pressed 'Go Back'.
C10_Witness ==
    /\ view.run /\ view.click = "back"
    /\ page = "StateInputPage"
    /\ state \in Elements(Unique(crime_data, "state/ut"))

=============================================================================
